---- MODULE Spec2Model ----
(***************************************************************************)
(* Model of src/server.js (CSBS backend): the work tracker routes          *)
(* (add, delete, status upsert, status read, forced recompute) with the    *)
(* two helpers recalcAndSaveWorkCounts and recomputeAndSaveGlobalTotals,   *)
(* and the register / login routes.                                        *)
(*                                                                         *)
(* Every request runs in a slot; each step of a slot is one store          *)
(* operation (one `await` on a mongoose call) together with the            *)
(* synchronous code around it.  Steps of different slots interleave        *)
(* freely, as express runs the async handlers concurrently.                *)
(*                                                                         *)
(* Store semantics are those of mongoose on MongoDB:                       *)
(*  - Document#save of a loaded document sends updateOne(filter, delta),   *)
(*    where delta holds only the modified paths: Array#push becomes $push  *)
(*    (and $inc __v), an assignment to status[i].<field> becomes a         *)
(*    positional $set whose filter carries {__v: loaded version}, an       *)
(*    assignment to `counts` or to a totals field becomes a $set when the  *)
(*    value differs from the loaded one.  It never inserts: when no        *)
(*    document matches, save rejects (VersionError /                       *)
(*    DocumentNotFoundError).                                              *)
(*  - Document#save of a new document is an insert.                        *)
(*  - a `unique: true` path is a unique index: the insert of a second      *)
(*    document with the same value rejects (E11000).                       *)
(* Timestamps, the descriptive fields of a work (subject, work, deadline,  *)
(* addedBy, fileUrl), the stored username and the user's name are left     *)
(* out: no condition in the code reads them back.                          *)
(***************************************************************************)
EXTENDS Integers, Sequences, FiniteSets, TLC

\* ---- bound of the model: requests accepted in one run
MaxRequests == 3

Slots == {1, 2}                  \* requests in flight at the same time
Users == {"u1", "u2"}            \* user identifiers sent as userId
Emails == {"a@x", "b@x"}
Passwords == {"p1", "p2"}
WorkIds == 1 .. MaxRequests      \* a run creates at most MaxRequests works
Missing == ""                    \* a body field that is absent (falsy)

\* ---- schemas (src/server.js 47-114)
StateEnum == <<"completed", "doing", "not yet started">>

ZeroCounts == [completed |-> 0, doing |-> 0, notYetStarted |-> 0]

NewWork == [status |-> <<>>, counts |-> ZeroCounts, v |-> 0]

NewWorkTotals == [totalWorks |-> 0, completed |-> 0, doing |-> 0, notYetStarted |-> 0]

VARIABLES
  issued,     \* requests accepted so far
  works,      \* Work collection: _id -> [status, counts, v]   (v is __v)
  nextId,     \* next fresh _id of a Work
  totals,     \* WorkTotals collection, in natural (insertion) order
  pc,         \* per slot: the await a work route handler is parked at
  req,        \* per slot: the request being served
  mem,        \* per slot: workDoc, the document loaded by findById, as mutated in memory
  pending,    \* per slot: saves started under Promise.all and not yet applied by the store
  agg,        \* per slot: agg[0] of recomputeAndSaveGlobalTotals
  tdoc,       \* per slot: totalsDoc as loaded by WorkTotals.findOne (<<>>: a new document)
  alone,      \* per slot: no other request has written the store since this one started
  racePeer,   \* per slot: the latest upsert of another user saved on this work since this slot read it
  deletedOk,  \* ids whose delete request has answered success
  resp,       \* the response sent by the step that led to this state (route "none": none)
  users,      \* User collection, in insertion order
  apc         \* per slot: the await a register handler is parked at

workVars == <<works, nextId, totals, pc, mem, pending, agg, tdoc, alone, racePeer, deletedOk>>
authVars == <<users, apc>>
vars == <<issued, works, nextId, totals, pc, req, mem, pending, agg, tdoc, alone, racePeer,
          deletedOk, resp, users, apc>>

\* ---- requests and responses
Req(kind, w, u, name, s, email, password) ==
  [kind |-> kind, w |-> w, u |-> u, name |-> name, s |-> s,
   email |-> email, password |-> password,
   drift |-> FALSE]    \* a forced recompute that found counts or totals out of step

WorkReq(kind, w, u, name, s) == Req(kind, w, u, name, s, Missing, Missing)
AuthReq(kind, email, password) == Req(kind, 0, Missing, Missing, Missing, email, password)

NoReq == Req("idle", 0, Missing, Missing, Missing, Missing, Missing)
NoMem == [status |-> <<>>, counts |-> ZeroCounts, v |-> 0, op |-> "none", idx |-> 0]
NoPending == [w \in {} |-> NoMem]
NoPeer == [u |-> Missing, s |-> Missing, op |-> "none"]
NoResp == [route |-> "none", status |-> 0, fields |-> {}, success |-> "absent",
           message |-> "", req |-> NoReq, alone |-> FALSE, raced |-> NoPeer]

\* res.status(code).json(body): fields are the keys of body, success the value of
\* its `success` key ("absent" when the body has none)
Json(code, fields, success, message, q) ==
  [route |-> q.kind, status |-> code, fields |-> fields, success |-> success,
   message |-> message, req |-> q, alone |-> FALSE, raced |-> NoPeer]

\* the catch block of a route: 500 {success: false, message, error}
Caught(message, q) == Json(500, {"success", "message", "error"}, "false", message, q)

\* ---- helpers

isValidState(s) == \E i \in DOMAIN StateEnum : StateEnum[i] = s

\* the forEach of recalcAndSaveWorkCounts
Tally(status) ==
  [completed |-> Cardinality({i \in DOMAIN status : status[i].state = "completed"}),
   doing |-> Cardinality({i \in DOMAIN status : status[i].state = "doing"}),
   notYetStarted |-> Cardinality({i \in DOMAIN status :
                                     status[i].state \notin {"completed", "doing"}})]

RECURSIVE SumOver(_, _, _)
SumOver(coll, ids, f) ==
  IF ids = {} THEN 0
  ELSE LET w == CHOOSE x \in ids : TRUE
       IN coll[w].counts[f] + SumOver(coll, ids \ {w}, f)

\* Work.aggregate([{$group: ...}]) and the agg.length > 0 branch
Aggregate(coll) ==
  IF DOMAIN coll = {} THEN NewWorkTotals
  ELSE [totalWorks |-> Cardinality(DOMAIN coll),
        completed |-> SumOver(coll, DOMAIN coll, "completed"),
        doing |-> SumOver(coll, DOMAIN coll, "doing"),
        notYetStarted |-> SumOver(coll, DOMAIN coll, "notYetStarted")]

\* workDoc.status.findIndex(s => s.userId == userId): 0 when there is none
FindIndex(status, u) ==
  IF \E i \in DOMAIN status : status[i].userId = u
  THEN CHOOSE i \in DOMAIN status :
         status[i].userId = u /\ \A j \in DOMAIN status : status[j].userId = u => i <= j
  ELSE 0

\* a freshly loaded document: nothing modified yet
Loaded(doc) == [status |-> doc.status, counts |-> doc.counts, v |-> doc.v,
                op |-> "none", idx |-> 0]

\* the in-memory mutation of the upsert handler (lines 424-435)
Mutate(doc, u, s) ==
  LET i == FindIndex(doc.status, u)
  IN IF i > 0
     THEN [status |-> [doc.status EXCEPT ![i].state = s], counts |-> doc.counts,
           v |-> doc.v, op |-> "set", idx |-> i]
     ELSE [status |-> Append(doc.status, [userId |-> u, state |-> s]), counts |-> doc.counts,
           v |-> doc.v, op |-> "push", idx |-> Len(doc.status) + 1]

\* the validation with the lookup moved in front of the state check
UpsertOutcomeLookupFirst(coll, id, u, name, s) ==
  IF u = Missing \/ name = Missing \/ s = Missing THEN "required"
  ELSE IF id \notin DOMAIN coll THEN "notfound"
  ELSE IF ~isValidState(s) THEN "invalid"
  ELSE "ok"

\* the validation of the upsert handler, in the order of lines 418-422
UpsertOutcome(coll, id, u, name, s) ==
  IF u = Missing \/ name = Missing \/ s = Missing THEN "required"
  ELSE IF ~isValidState(s) THEN "invalid"
  ELSE IF id \notin DOMAIN coll THEN "notfound"
  ELSE "ok"

\* ---- the store's answer to workDoc.save() for a loaded document (line 141)

\* does the filter of the update match a stored document
SaveMatches(coll, w, m) ==
  /\ w \in DOMAIN coll
  /\ (m.op = "set" => coll[w].v = m.v)

\* a save that writes the whole in-memory document over the stored one
SaveApplyWholeDocument(stored, m) ==
  [status |-> m.status, counts |-> Tally(m.status),
   v |-> IF m.op = "push" THEN stored.v + 1 ELSE stored.v]

\* the stored document after the update is applied: m.counts is the loaded value,
\* Tally(m.status) the value recalcAndSaveWorkCounts assigns
SaveApply(stored, m) ==
  LET c == Tally(m.status)
      st == IF m.op = "push" THEN Append(stored.status, m.status[m.idx])
            ELSE IF m.op = "set"
                 THEN [stored.status EXCEPT ![m.idx].state = m.status[m.idx].state]
                 ELSE stored.status
  IN [status |-> st,
      counts |-> IF c # m.counts THEN c ELSE stored.counts,
      v |-> IF m.op = "push" THEN stored.v + 1 ELSE stored.v]

\* a recomputation that creates the record but never updates an existing one
TotalsAfterSaveCreateOnly(coll, loaded, a) ==
  IF loaded = <<>> THEN Append(coll, a) ELSE coll

\* totalsDoc.save() (line 179): an insert for a new document, else $set of the fields
\* whose value differs from the loaded one, on the document that was loaded (the first)
TotalsAfterSave(coll, loaded, a) ==
  IF loaded = <<>> THEN Append(coll, a)
  ELSE [coll EXCEPT ![1] =
          [f \in DOMAIN a |-> IF a[f] # loaded[1][f] THEN a[f] ELSE coll[1][f]]]

\* counts or totals are not what a recomputation would store now
Drifted ==
  \/ \E w \in DOMAIN works : works[w].counts # Tally(works[w].status)
  \/ totals = <<>>
  \/ totals # <<>> /\ totals[1] # Aggregate(works)

\* ---- bookkeeping shared by the steps

Idle(r) == pc[r] = "idle" /\ apc[r] = "idle"

\* a new request is served in the first free slot
Accept(r) ==
  /\ Idle(r)
  /\ \A o \in Slots : o < r => ~Idle(o)
  /\ issued < MaxRequests
  /\ issued' = issued + 1

\* a step of slot r that writes the store ends the isolation of the others
Disturb(r) == [o \in Slots |-> IF o = r THEN alone[r] ELSE FALSE]

Finish(r) ==
  /\ pc' = [pc EXCEPT ![r] = "idle"]
  /\ req' = [req EXCEPT ![r] = NoReq]
  /\ mem' = [mem EXCEPT ![r] = NoMem]
  /\ pending' = [pending EXCEPT ![r] = NoPending]
  /\ agg' = [agg EXCEPT ![r] = NewWorkTotals]
  /\ tdoc' = [tdoc EXCEPT ![r] = <<>>]
  /\ racePeer' = [racePeer EXCEPT ![r] = NoPeer]

\* ---- POST /api/work/add (lines 347-372)
AddWork(r, bodyOk) ==
  /\ Accept(r)
  /\ UNCHANGED <<authVars, totals, mem, pending, agg, tdoc, racePeer, deletedOk>>
  /\ IF ~bodyOk
     THEN /\ resp' = Json(400, {"success", "message"}, "false",
                          "subject, work, deadline required",
                          WorkReq("add", 0, Missing, Missing, Missing))
          /\ UNCHANGED <<works, nextId, pc, req, alone>>
     ELSE /\ works' = [w \in DOMAIN works \cup {nextId} |->
                         IF w = nextId THEN NewWork ELSE works[w]]
          /\ nextId' = nextId + 1
          /\ pc' = [pc EXCEPT ![r] = "agg"]
          /\ req' = [req EXCEPT ![r] = WorkReq("add", nextId, Missing, Missing, Missing)]
          /\ alone' = [o \in Slots |-> o = r]
          /\ resp' = NoResp

\* ---- DELETE /api/work/:id (lines 392-404)
DeleteWork(r, id) ==
  /\ Accept(r)
  /\ UNCHANGED <<authVars, nextId, totals, mem, pending, agg, tdoc, racePeer, deletedOk>>
  /\ IF id \notin DOMAIN works
     THEN /\ resp' = Json(404, {"success", "message"}, "false", "Work not found",
                          WorkReq("delete", id, Missing, Missing, Missing))
          /\ UNCHANGED <<works, pc, req, alone>>
     ELSE /\ works' = [w \in DOMAIN works \ {id} |-> works[w]]
          /\ pc' = [pc EXCEPT ![r] = "agg"]
          /\ req' = [req EXCEPT ![r] = WorkReq("delete", id, Missing, Missing, Missing)]
          /\ alone' = [o \in Slots |-> o = r]
          /\ resp' = NoResp

\* ---- recomputeAndSaveGlobalTotals (lines 149-181), one step per await
AggregateStep(r) ==
  /\ pc[r] = "agg"
  /\ agg' = [agg EXCEPT ![r] = Aggregate(works)]
  /\ pc' = [pc EXCEPT ![r] = "find"]
  /\ resp' = NoResp
  /\ UNCHANGED <<authVars, issued, works, nextId, totals, req, mem, pending, tdoc, alone,
                 racePeer, deletedOk>>

FindTotals(r) ==
  /\ pc[r] = "find"
  /\ tdoc' = [tdoc EXCEPT ![r] = IF totals = <<>> THEN <<>> ELSE <<totals[1]>>]
  /\ pc' = [pc EXCEPT ![r] = "savet"]
  /\ resp' = NoResp
  /\ UNCHANGED <<authVars, issued, works, nextId, totals, req, mem, pending, agg, alone,
                 racePeer, deletedOk>>

\* the success body of the four routes that end with the totals recomputation
SuccessBody(kind) ==
  IF kind = "add" THEN [fields |-> {"success", "message", "newWork", "totals"},
                        message |-> "Work added"]
  ELSE IF kind = "delete" THEN [fields |-> {"success", "message", "totals"},
                                message |-> "Work deleted"]
  ELSE IF kind = "upsert" THEN [fields |-> {"success", "message", "work", "totals"},
                                message |-> "Status updated"]
  ELSE [fields |-> {"success", "message", "totals"}, message |-> "Recomputed totals"]

SaveTotals(r) ==
  /\ pc[r] = "savet"
  /\ totals' = TotalsAfterSave(totals, tdoc[r], agg[r])
  /\ resp' = [Json(200, SuccessBody(req[r].kind).fields, "true",
                   SuccessBody(req[r].kind).message, req[r])
               EXCEPT !.alone = alone[r], !.raced = racePeer[r]]
  /\ deletedOk' = IF req[r].kind = "delete" THEN deletedOk \cup {req[r].w} ELSE deletedOk
  /\ alone' = [o \in Slots |-> FALSE]
  /\ Finish(r)
  /\ UNCHANGED <<authVars, issued, works, nextId>>

\* ---- POST /api/work/status/:workId (lines 413-448), up to findById
UpsertStatus(r, id, u, name, s) ==
  /\ Accept(r)
  /\ UNCHANGED <<authVars, works, nextId, totals, pending, agg, tdoc, racePeer, deletedOk>>
  /\ LET q == WorkReq("upsert", id, u, name, s)
         out == UpsertOutcome(works, id, u, name, s)
     IN IF out = "ok"
        THEN /\ mem' = [mem EXCEPT ![r] = Mutate(works[id], u, s)]
             /\ req' = [req EXCEPT ![r] = q]
             /\ pc' = [pc EXCEPT ![r] = "save"]
             /\ alone' = [alone EXCEPT ![r] = TRUE]
             /\ resp' = NoResp
        ELSE /\ resp' = IF out = "required"
                        THEN Json(400, {"success", "message"}, "false",
                                  "userId, username, state required", q)
                        ELSE IF out = "invalid"
                        THEN Json(400, {"success", "message"}, "false", "Invalid state", q)
                        ELSE Json(404, {"success", "message"}, "false", "Work not found", q)
             /\ UNCHANGED <<pc, req, mem, alone>>

\* recalcAndSaveWorkCounts(workDoc) of the upsert handler: await workDoc.save()
SaveWork(r) ==
  /\ pc[r] = "save"
  /\ UNCHANGED <<authVars, issued, nextId, totals, deletedOk>>
  /\ IF SaveMatches(works, req[r].w, mem[r])
     THEN /\ works' = [works EXCEPT ![req[r].w] = SaveApply(works[req[r].w], mem[r])]
          /\ pc' = [pc EXCEPT ![r] = "agg"]
          /\ racePeer' = [o \in Slots |->
                            IF o # r /\ pc[o] = "save" /\ req[o].w = req[r].w
                                     /\ req[o].u # req[r].u
                            THEN [u |-> req[r].u, s |-> req[r].s, op |-> mem[r].op]
                            ELSE racePeer[o]]
          /\ alone' = Disturb(r)
          /\ resp' = NoResp
          /\ UNCHANGED <<req, mem, pending, agg, tdoc>>
     ELSE /\ resp' = Caught("Failed to update status", req[r])
          /\ alone' = [alone EXCEPT ![r] = FALSE]
          /\ Finish(r)
          /\ UNCHANGED works

\* ---- GET /api/work/status/:workId (lines 453-469); counts is never missing (schema default)
GetStatus(r, id) ==
  /\ Accept(r)
  /\ resp' = IF id \in DOMAIN works
             THEN Json(200, {"success", "counts"}, "true", "",
                       WorkReq("getStatus", id, Missing, Missing, Missing))
             ELSE Json(404, {"success", "message"}, "false", "Work not found",
                       WorkReq("getStatus", id, Missing, Missing, Missing))
  /\ UNCHANGED <<authVars, workVars, req>>

\* ---- POST /api/work/recompute-totals (lines 487-500)
\* Work.find(): every loaded work starts its save; the store applies them in any order
RecomputeStart(r) ==
  /\ Accept(r)
  /\ req' = [req EXCEPT ![r] = [WorkReq("recompute", 0, Missing, Missing, Missing)
                                   EXCEPT !.drift = Drifted]]
  /\ pending' = [pending EXCEPT ![r] = [w \in DOMAIN works |-> Loaded(works[w])]]
  /\ pc' = [pc EXCEPT ![r] = IF DOMAIN works = {} THEN "agg" ELSE "saveall"]
  /\ alone' = [alone EXCEPT ![r] = TRUE]
  /\ resp' = NoResp
  /\ UNCHANGED <<authVars, works, nextId, totals, mem, agg, tdoc, racePeer, deletedOk>>

\* one of the saves of Promise.all is applied; the first rejection answers 500
\* while the other saves still reach the store
SaveOne(r, w) ==
  /\ pc[r] \in {"saveall", "failed"}
  /\ w \in DOMAIN pending[r]
  /\ UNCHANGED <<authVars, issued, nextId, totals, deletedOk>>
  /\ LET ok == SaveMatches(works, w, pending[r][w])
         rest == [x \in DOMAIN pending[r] \ {w} |-> pending[r][x]]
         failed == pc[r] = "failed" \/ ~ok
     IN /\ works' = IF ok THEN [works EXCEPT ![w] = SaveApply(works[w], pending[r][w])]
                    ELSE works
        /\ resp' = IF ~ok /\ pc[r] = "saveall"
                   THEN Caught("Failed to recompute totals", req[r])
                   ELSE NoResp
        /\ IF DOMAIN rest = {} /\ failed
           THEN /\ Finish(r)
                /\ alone' = [Disturb(r) EXCEPT ![r] = FALSE]
           ELSE /\ pending' = [pending EXCEPT ![r] = rest]
                /\ pc' = [pc EXCEPT ![r] = IF failed THEN "failed"
                                           ELSE IF DOMAIN rest = {} THEN "agg" ELSE "saveall"]
                /\ alone' = IF failed THEN [Disturb(r) EXCEPT ![r] = FALSE] ELSE Disturb(r)
                /\ UNCHANGED <<req, mem, agg, tdoc, racePeer>>

\* ---- POST /api/register (lines 207-224)

\* bcrypt.hash / bcrypt.compare
Hash(p) == <<"bcrypt", p>>
Compare(p, h) == h = Hash(p)

\* User.findOne({email}): <<>> when there is none, else the first match
FindUser(coll, email) ==
  IF \E i \in DOMAIN coll : coll[i].email = email
  THEN <<coll[CHOOSE i \in DOMAIN coll :
               coll[i].email = email /\ \A j \in DOMAIN coll : coll[j].email = email => i <= j]>>
  ELSE <<>>

\* a collection without the unique index
UniqueIndexAbsent(coll, email) == TRUE

\* the unique index on User.email (line 48): may a document with this email be inserted
UniqueIndexAllows(coll, email) == \A i \in DOMAIN coll : coll[i].email # email

FinishAuth(r) ==
  /\ apc' = [apc EXCEPT ![r] = "idle"]
  /\ req' = [req EXCEPT ![r] = NoReq]

\* up to User.findOne
Register(r, email, password) ==
  /\ Accept(r)
  /\ UNCHANGED <<workVars, users>>
  /\ LET q == AuthReq("register", email, password)
     IN IF email = Missing \/ password = Missing
        THEN /\ resp' = Json(400, {"message"}, "absent", "email & password required", q)
             /\ UNCHANGED <<apc, req>>
        ELSE IF FindUser(users, email) # <<>>
        THEN /\ resp' = Json(400, {"message"}, "absent", "Email already exists", q)
             /\ UNCHANGED <<apc, req>>
        ELSE /\ apc' = [apc EXCEPT ![r] = "insert"]
             /\ req' = [req EXCEPT ![r] = q]
             /\ resp' = NoResp

\* await newUser.save()
RegisterSave(r) ==
  /\ apc[r] = "insert"
  /\ UNCHANGED <<workVars, issued>>
  /\ FinishAuth(r)
  /\ IF UniqueIndexAllows(users, req[r].email)
     THEN /\ users' = Append(users, [email |-> req[r].email,
                                     password |-> Hash(req[r].password),
                                     pb |-> req[r].password])
          /\ resp' = Json(201, {"success", "message"}, "true", "User registered", req[r])
     ELSE /\ resp' = Caught("Registration failed", req[r])
          /\ UNCHANGED users

\* ---- POST /api/login (lines 229-251): one store read, then bcrypt.compare and jwt.sign
Login(r, email, password) ==
  /\ Accept(r)
  /\ UNCHANGED <<workVars, users, apc, req>>
  /\ LET q == AuthReq("login", email, password)
         user == FindUser(users, email)
     IN resp' = IF email = Missing \/ password = Missing
                THEN Json(400, {"message"}, "absent", "email & password required", q)
                ELSE IF user = <<>>
                THEN Json(401, {"message"}, "absent", "Invalid credentials", q)
                ELSE IF ~Compare(password, user[1].password)
                THEN Json(401, {"message"}, "absent", "Invalid credentials", q)
                ELSE Json(200, {"success", "token"}, "true", "", q)

\* ---- request bodies sent to the upsert route
Bodies ==
  [u : Users, name : {"name"}, s : {"completed", "doing", "not yet started"}]
  \cup {[u |-> Missing, name |-> "name", s |-> "doing"],
        [u |-> "u1", name |-> Missing, s |-> "doing"],
        [u |-> "u1", name |-> "name", s |-> Missing],
        [u |-> "u1", name |-> "name", s |-> "bogus"]}

Init ==
  /\ issued = 0
  /\ works = [w \in {} |-> NewWork]
  /\ nextId = 1
  /\ totals = <<>>
  /\ pc = [r \in Slots |-> "idle"]
  /\ req = [r \in Slots |-> NoReq]
  /\ mem = [r \in Slots |-> NoMem]
  /\ pending = [r \in Slots |-> NoPending]
  /\ agg = [r \in Slots |-> NewWorkTotals]
  /\ tdoc = [r \in Slots |-> <<>>]
  /\ alone = [r \in Slots |-> FALSE]
  /\ racePeer = [r \in Slots |-> NoPeer]
  /\ deletedOk = {}
  /\ resp = NoResp
  /\ users = <<>>
  /\ apc = [r \in Slots |-> "idle"]

Next ==
  \E r \in Slots :
    \/ \E ok \in BOOLEAN : AddWork(r, ok)
    \/ \E id \in WorkIds : DeleteWork(r, id)
    \/ \E id \in WorkIds, b \in Bodies : UpsertStatus(r, id, b.u, b.name, b.s)
    \/ SaveWork(r)
    \/ \E id \in WorkIds : GetStatus(r, id)
    \/ RecomputeStart(r)
    \/ \E w \in WorkIds : SaveOne(r, w)
    \/ AggregateStep(r)
    \/ FindTotals(r)
    \/ SaveTotals(r)

Spec == Init /\ [][Next]_vars

\* the register and login routes alone
NextAuth ==
  \E r \in Slots :
    \/ \E email \in Emails \cup {Missing}, password \in Passwords \cup {Missing} :
         Register(r, email, password)
    \/ RegisterSave(r)
    \/ \E email \in Emails \cup {Missing}, password \in Passwords \cup {Missing} :
         Login(r, email, password)

SpecAuth == Init /\ [][NextAuth]_vars

\* ======================= properties =======================

CountsSum(c) == c.completed + c.doing + c.notYetStarted

HasEntry(status, u, s) == \E i \in DOMAIN status : status[i].userId = u /\ status[i].state = s

EntriesOf(status, u) == {i \in DOMAIN status : status[i].userId = u}

\* the sum of one counts field over the stored works, id by id
RECURSIVE FieldSumUpTo(_, _)
FieldSumUpTo(f, n) ==
  IF n = 0 THEN 0
  ELSE (IF n \in DOMAIN works THEN works[n].counts[f] ELSE 0) + FieldSumUpTo(f, n - 1)

FieldSum(f) == FieldSumUpTo(f, nextId - 1)

\* the WorkTotals record (the one findOne returns) agrees with the stored works
TotalsMatch ==
  /\ totals # <<>>
  /\ totals[1].totalWorks = Cardinality(DOMAIN works)
  /\ totals[1].completed = FieldSum("completed")
  /\ totals[1].doing = FieldSum("doing")
  /\ totals[1].notYetStarted = FieldSum("notYetStarted")

UpsertSucceeded == resp.route = "upsert" /\ resp.success = "true"

\* C1: in every reachable state, for every stored assignment, completed + doing +
\* notYetStarted of its stored counts equals the length of its stored status list.
C1_CountsSumIsLength ==
  \A w \in DOMAIN works : CountsSum(works[w].counts) = Len(works[w].status)

\* C2: in every reachable state, every stored status list holds at most one entry
\* per user identifier.
C2_OneEntryPerUser ==
  \A w \in DOMAIN works : \A u \in Users : Cardinality(EntriesOf(works[w].status, u)) <= 1

\* C3: whenever a status upsert (A, U, s) answers success, the store then holds U's
\* entry with state s in A's list, A.counts is the tally of A's stored list, and the
\* WorkTotals record equals the sums over the stored assignments.
C3_SuccessReflectsChange ==
  UpsertSucceeded =>
    /\ resp.req.w \in DOMAIN works
    /\ HasEntry(works[resp.req.w].status, resp.req.u, resp.req.s)
    /\ works[resp.req.w].counts = Tally(works[resp.req.w].status)
    /\ TotalsMatch

C5_DeleteIsFinal ==
  /\ \A a \in deletedOk : a \notin DOMAIN works
  /\ (resp.route = "getStatus" /\ resp.req.w \in deletedOk) => resp.status = 404
  /\ (deletedOk # {} /\ totals # <<>>) =>
        totals[1].totalWorks <= (nextId - 1) - Cardinality(deletedOk)

\* C6: the store never holds more than one WorkTotals record.
C6_SingleTotalsRecord == Len(totals) <= 1

\* C7: every response carries a boolean success field, and every error response
\* carries a message.
C7_UniformEnvelope ==
  resp.route # "none" =>
    /\ "success" \in resp.fields
    /\ resp.success \in {"true", "false"}
    /\ (resp.status >= 400 => "message" \in resp.fields)

\* C8: a register request (email and password given) whose email is held by a stored
\* user when the handler looks it up is answered 400 "Email already exists" and stores nothing; a register
\* request goes on to its save only when the lookup found the email free; and no
\* step leaves two stored users with the same email.
C8_DuplicateEmailRejected ==
  [][/\ \A i, j \in DOMAIN users' : users'[i].email = users'[j].email => i = j
     /\ (resp'.route = "register" /\ apc' = apc
           /\ resp'.req.email # Missing /\ resp'.req.password # Missing)
          => /\ \E i \in DOMAIN users : users[i].email = resp'.req.email
             /\ resp'.status = 400
             /\ resp'.message = "Email already exists"
             /\ users' = users
     /\ \A r \in Slots :
          (apc[r] = "idle" /\ apc'[r] = "insert")
            => \A i \in DOMAIN users : users[i].email # req'[r].email]_vars

\* a register request for a stored email has been answered 400 "Email already exists"
C8_Witness ==
  /\ resp.route = "register" /\ resp.status = 400
  /\ resp.message = "Email already exists"
  /\ \E i \in DOMAIN users : users[i].email = resp.req.email

\* C9: a status upsert that misses userId, username or state, or whose state is not
\* one of the three legal strings, is answered 400 (also when the assignment is
\* unknown); a well-formed one on an unknown assignment is answered 404; none of
\* them changes any assignment or the WorkTotals records; and a request reaches
\* its save only when it is well formed and its assignment is stored.
C9_ValidationBeforeLookup ==
  [][/\ (resp'.route = "upsert" /\ pc' = pc) =>
          LET q == resp'.req
              malformed == \/ q.u = Missing \/ q.name = Missing \/ q.s = Missing
                           \/ q.s \notin {"completed", "doing", "not yet started"}
          IN /\ malformed => resp'.status = 400
             /\ (~malformed /\ q.w \notin DOMAIN works) => resp'.status = 404
             /\ resp'.status \in {400, 404}
             /\ works' = works /\ totals' = totals
     /\ \A r \in Slots :
          (pc[r] = "idle" /\ pc'[r] = "save") =>
             /\ req'[r].u \in Users /\ req'[r].name # Missing
             /\ req'[r].s \in {"completed", "doing", "not yet started"}
             /\ req'[r].w \in DOMAIN works]_vars

\* an upsert with an illegal state on an unknown assignment has been answered 400
\* while another assignment is stored
C9_Witness ==
  /\ resp.route = "upsert" /\ resp.status = 400
  /\ resp.req.s = "bogus"
  /\ resp.req.w \notin DOMAIN works
  /\ DOMAIN works # {}

\* the save of slot r succeeds after an upsert of another user on the same
\* assignment was saved between r's read and r's save
RacingSave(r) == pc[r] = "save" /\ pc'[r] = "agg" /\ racePeer[r] # NoPeer

====
